---- MODULE Spec2Model ----
(***************************************************************************)
(* Day Quality Tracker: the persistent log store (src/dqt/dqt_json.py),    *)
(* its schema normalizer and its persist policy, as a state machine.       *)
(*                                                                         *)
(* The log file is modelled by the members of the JSON object it holds, in *)
(* textual order (a member may repeat a name: json.load decides what that  *)
(* means).  The store is the ordered dict DQTJSON.logs.                    *)
(***************************************************************************)
EXTENDS Integers, Sequences, FiniteSets, TLC

\* ---------------------------------------------------------------- bounds
\* calendar days are 1..MaxDay
MaxDay == 2
\* members of the log file found at start-up
MaxLen == 2
\* add does not grow the store beyond this many entries
MaxLogs == 2
\* characters typed at the backup file name prompt
MaxName == 1
\* backups made in one run
MaxBackups == 1
\* values committed with ENTER in one visit of the settings menu
MaxEnter == 1
\* members of a log file edited by hand
MaxEdit == 1
\* the days such a file is about
EditDays == {1, 2}

Days == 1..MaxDay
\* days that also have an unpadded spelling
UnpaddedDays == {1}

\* ------------------------------------------------------------ JSON values
\* A value is a tagged record, so that 1 (int) and 1.0 (float) differ.
Null == [t |-> "null", v |-> 0]
Absent == [t |-> "absent", v |-> 0]
Unset == [t |-> "unset", v |-> 0]
IntV(n) == [t |-> "int", v |-> n]
Flt(n) == [t |-> "float", v |-> n]
Str(n) == [t |-> "str", v |-> n]
EmptyStr == Str(0)

\* Date keys are strings; "2024-01-02" and "2024-1-2" are two keys of one day.
PaddedKeys == [day : Days, pad : {TRUE}]
Keys == PaddedKeys \cup [day : UnpaddedDays, pad : {FALSE}]
NoKey == [day |-> 0, pad |-> TRUE]

\* datetime.strptime(date, date_format): the calendar day a key spells.
Strptime(k) == k.day

\* Values a caller passes to add / update.
Ratings == {Null, Flt(1)}
Memories == {EmptyStr, Str(1)}
\* update is called with a rating, with a memory, or with neither
\* (Manager._change_rating_for_date, _change_memory_for_date, main.py).
UpdateArgs ==
    {a \in (Ratings \cup {Unset}) \X (Memories \cup {Unset}) :
        a[1] = Unset \/ a[2] = Unset}

\* Values found in a log file at start-up.
RawRatings == {Absent, Null, IntV(1)}
RawMemories == {Absent, Str(1), Null}
RawMembers ==
    [key : Keys, shape : {"dict"}, rating : RawRatings, memory : RawMemories]
    \cup [key : Keys, shape : {"num"}, rating : {IntV(1)}, memory : {Absent}]
\* Values found in the log file of a store that is then operated on.
StoreMembers ==
    [key : Keys, shape : {"dict"}, rating : {Null, IntV(1)},
     memory : {Absent, Str(1)}]
LegacyMembers ==
    [key : PaddedKeys, shape : {"num"}, rating : {IntV(1)}, memory : {Absent}]

SeqsUpTo(S, n) == UNION {[1..m -> S] : m \in 0..n}

VARIABLES
    file,
    pre5,
    logs,
    autofill_json,
    pc,
    last,
    os_name,
    dest,
    bk,
    settings_file,
    jm,
    sm,
    cfg,
    report,
    nolog,
    configs

\* the host, the backup directory, the backup dialogue
backupVars == <<os_name, dest, bk>>
\* settings.json, JsonManager.settings, SettingsManager.settings, and the
\* last call made on the settings
configVars == <<settings_file, jm, sm, cfg>>
\* what lies outside the log store; report is what the program prints when
\* it ends on an error
\* the last call of no_logs, and CONFIGS['tracker'] of settings.py
sessionVars == <<nolog, configs>>
others == <<backupVars, configVars, report, sessionVars>>
vars == <<file, pre5, logs, autofill_json, pc, last, others>>

AbsentFile == [st |-> "absent", members |-> <<>>]
BlankFile == [st |-> "blank", members |-> <<>>]
JsonFile(ms) == [st |-> "json", members |-> ms]

\* The record kept of a call: what was asked, how it ended, how many times
\* it wrote the log file.
Call(op, k, r, m, e, w) ==
    [op |-> op, key |-> k, rating |-> r, memory |-> m, err |-> e, writes |-> w]

\* ------------------------------------------------------------- the store
HasKey(l, k) == \E i \in 1..Len(l) : l[i].key = k
IndexOf(l, k) == CHOOSE i \in 1..Len(l) : l[i].key = k
KeysOf(l) == {l[i].key : i \in 1..Len(l)}
KeyOrder(l) == [i \in 1..Len(l) |-> l[i].key]

\* DQTJSON.get_rating / get_memory
GetRating(l, k) == l[IndexOf(l, k)].rating
GetMemory(l, k) == l[IndexOf(l, k)].memory

\* json.load of an object: a repeated name keeps its first position and
\* takes the last value.
RECURSIVE JsonLoad(_)
JsonLoad(ms) ==
    IF ms = <<>> THEN <<>>
    ELSE LET init == JsonLoad(SubSeq(ms, 1, Len(ms) - 1))
             e == ms[Len(ms)]
         IN IF HasKey(init, e.key)
            THEN [i \in 1..Len(init) |->
                    IF init[i].key = e.key THEN e ELSE init[i]]
            ELSE Append(init, e)

\* A dump that leaves out an empty memory field.
JsonDumpSparse(l) ==
    [i \in 1..Len(l) |->
        [key |-> l[i].key, shape |-> "dict", rating |-> l[i].rating,
         memory |-> IF l[i].memory = EmptyStr THEN Absent ELSE l[i].memory]]

\* json.dump of the store: one object member per entry, in dict order.
JsonDump(l) ==
    [i \in 1..Len(l) |->
        [key |-> l[i].key, shape |-> "dict",
         rating |-> l[i].rating, memory |-> l[i].memory]]

\* DQTJSON._load_raw_json
LoadRawJson(f) ==
    IF f.st = "json" THEN JsonLoad(f.members) ELSE <<>>

\* A dump without the data-loss guard.
DumpUnguarded(f, l) == FALSE

\* A guard that looks at the file alone: any file with data is kept.
DumpGuardedByFile(f, l) == LoadRawJson(f) # <<>>

\* DQTJSON._dump: the data-loss guard, and the file after dumping mapping l
DumpGuarded(f, l) == LoadRawJson(f) # <<>> /\ l = <<>>
DumpResult(f, l) ==
    IF DumpGuarded(f, l) THEN f ELSE JsonFile(JsonDump(l))
DumpWrites(f, l) == IF DumpGuarded(f, l) THEN 0 ELSE 1

\* float(raw_rating)
Float(x) == IF x.t = "int" THEN Flt(x.v) ELSE x

\* DQTJSON._validate_and_normalize_logs, the loop over contents.items()
NormFail(e) == [err |-> e, logs |-> <<>>, updated |-> FALSE]
RECURSIVE NormFrom(_, _, _, _, _)
NormFrom(contents, i, validated, updated, af) ==
    IF i > Len(contents)
    THEN [err |-> "none", logs |-> validated, updated |-> updated]
    ELSE
      LET e == contents[i]
          diff == IF i = 1 THEN 1
                  ELSE Strptime(e.key) - Strptime(contents[i - 1].key)
          rawRating == IF e.rating = Absent THEN Null ELSE e.rating
          rating == IF rawRating = Null THEN Null ELSE Float(rawRating)
          memory == IF e.memory = Absent THEN EmptyStr ELSE e.memory
          filled == e.rating = Absent \/ e.memory = Absent
      IN IF diff < 0 THEN NormFail("ValueError_older")
         ELSE IF diff = 0 THEN NormFail("ValueError_repeated")
         ELSE IF e.shape # "dict" THEN NormFail("ValueError_format")
         ELSE IF e.rating = Absent /\ ~af THEN NormFail("KeyError_rating")
         ELSE IF e.memory = Absent /\ ~af THEN NormFail("KeyError_memory")
         ELSE NormFrom(contents, i + 1,
                       Append(validated,
                              [key |-> e.key, rating |-> rating,
                               memory |-> memory]),
                       updated \/ filled, af)

\* A normalizer that opens the file for writing before it validates, so that
\* a failure leaves an empty mapping behind.
ValidateAndNormalizeTruncating(contents, f, af) ==
    LET n == NormFrom(contents, 1, <<>>, FALSE, af)
    IN IF n.err # "none"
       THEN [err |-> n.err, logs |-> <<>>, file |-> JsonFile(<<>>),
             writes |-> 1]
       ELSE IF n.updated
       THEN [err |-> "none", logs |-> n.logs,
             file |-> DumpResult(f, n.logs), writes |-> DumpWrites(f, n.logs)]
       ELSE [err |-> "none", logs |-> n.logs, file |-> f, writes |-> 0]

\* A normalizer that rewrites the file after every load that succeeds.
ValidateAndNormalizeRewriting(contents, f, af) ==
    LET n == NormFrom(contents, 1, <<>>, FALSE, af)
    IN IF n.err # "none"
       THEN [err |-> n.err, logs |-> <<>>, file |-> f, writes |-> 0]
       ELSE [err |-> "none", logs |-> n.logs,
             file |-> DumpResult(f, n.logs), writes |-> DumpWrites(f, n.logs)]

\* A normalizer that fills a missing field whatever the policy says.
ValidateAndNormalizeFilling(contents, f, af) ==
    LET n == NormFrom(contents, 1, <<>>, FALSE, TRUE)
    IN IF n.err # "none"
       THEN [err |-> n.err, logs |-> <<>>, file |-> f, writes |-> 0]
       ELSE IF n.updated
       THEN [err |-> "none", logs |-> n.logs,
             file |-> DumpResult(f, n.logs), writes |-> DumpWrites(f, n.logs)]
       ELSE [err |-> "none", logs |-> n.logs, file |-> f, writes |-> 0]

\* DQTJSON._validate_and_normalize_logs: outcome, store, file, writes
ValidateAndNormalize(contents, f, af) ==
    LET n == NormFrom(contents, 1, <<>>, FALSE, af)
    IN IF n.err # "none"
       THEN [err |-> n.err, logs |-> <<>>, file |-> f, writes |-> 0]
       ELSE IF n.updated
       THEN [err |-> "none", logs |-> n.logs,
             file |-> DumpResult(f, n.logs), writes |-> DumpWrites(f, n.logs)]
       ELSE [err |-> "none", logs |-> n.logs, file |-> f, writes |-> 0]

\* DQTJSON._load_json
LoadJson(f, af) ==
    LET contents == LoadRawJson(f)
    IN IF contents = <<>>
       THEN [err |-> "none", logs |-> <<>>, file |-> f, writes |-> 0]
       ELSE ValidateAndNormalize(contents, f, af)

\* DQTJSON._touch: the log file after it, and what is left of the old file
Touched(f, p) ==
    IF f.st # "absent" THEN f
    ELSE IF p.st # "absent" THEN p
    ELSE BlankFile
TouchedPre5(f, p) == IF f.st = "absent" THEN AbsentFile ELSE p

\* An add that overwrites an entry it finds (an upsert).
AddResultUpsert(l, k, r, m) ==
    IF HasKey(l, k)
    THEN [err |-> "none",
          logs |-> [i \in 1..Len(l) |->
                     IF l[i].key = k
                     THEN [key |-> k, rating |-> r, memory |-> m]
                     ELSE l[i]]]
    ELSE [err |-> "none",
          logs |-> Append(l, [key |-> k, rating |-> r, memory |-> m])]

\* An add that forgets the memory it was given and stores the default.
AddResultNoMemory(l, k, r, m) ==
    IF HasKey(l, k)
    THEN [err |-> "KeyError_exists", logs |-> l]
    ELSE [err |-> "none",
          logs |-> Append(l, [key |-> k, rating |-> r, memory |-> EmptyStr])]

\* DQTJSON.add, on the store
AddResult(l, k, r, m) ==
    IF HasKey(l, k)
    THEN [err |-> "KeyError_exists", logs |-> l]
    ELSE [err |-> "none",
          logs |-> Append(l, [key |-> k, rating |-> r, memory |-> m])]

\* An update that creates the entry it does not find (an upsert).
UpdateResultUpsert(l, k, r, m) ==
    IF k = NoKey
    THEN IF r # Unset \/ m # Unset
         THEN [err |-> "ValueError_nodate", logs |-> l, dump |-> FALSE]
         ELSE [err |-> "none", logs |-> l, dump |-> FALSE]
    ELSE IF ~HasKey(l, k)
    THEN [err |-> "none",
          logs |-> Append(l, [key |-> k,
                              rating |-> IF r # Unset THEN r ELSE Null,
                              memory |-> IF m # Unset THEN m ELSE EmptyStr]),
          dump |-> TRUE]
    ELSE [err |-> "none",
          logs |-> [i \in 1..Len(l) |->
                     IF l[i].key = k
                     THEN [key |-> k,
                           rating |-> IF r # Unset THEN r ELSE l[i].rating,
                           memory |-> IF m # Unset THEN m ELSE l[i].memory]
                     ELSE l[i]],
          dump |-> TRUE]

\* An update that rebuilds the entry, with add's defaults for what is unset.
UpdateResultRebuild(l, k, r, m) ==
    IF k = NoKey
    THEN IF r # Unset \/ m # Unset
         THEN [err |-> "ValueError_nodate", logs |-> l, dump |-> FALSE]
         ELSE [err |-> "none", logs |-> l, dump |-> FALSE]
    ELSE IF ~HasKey(l, k)
    THEN [err |-> "KeyError_notfound", logs |-> l, dump |-> FALSE]
    ELSE [err |-> "none",
          logs |-> [i \in 1..Len(l) |->
                     IF l[i].key = k
                     THEN [key |-> k,
                           rating |-> IF r # Unset THEN r ELSE Null,
                           memory |-> IF m # Unset THEN m ELSE EmptyStr]
                     ELSE l[i]],
          dump |-> TRUE]

\* An update that insists on a date even when it is given nothing to change.
UpdateResultStrict(l, k, r, m) ==
    IF k = NoKey
    THEN [err |-> "ValueError_nodate", logs |-> l, dump |-> FALSE]
    ELSE IF ~HasKey(l, k)
    THEN [err |-> "KeyError_notfound", logs |-> l, dump |-> FALSE]
    ELSE [err |-> "none",
          logs |-> [i \in 1..Len(l) |->
                     IF l[i].key = k
                     THEN [key |-> k,
                           rating |-> IF r # Unset THEN r ELSE l[i].rating,
                           memory |-> IF m # Unset THEN m ELSE l[i].memory]
                     ELSE l[i]],
          dump |-> TRUE]

\* DQTJSON.update, on the store; dump: whether the call reaches _dump
UpdateResult(l, k, r, m) ==
    IF k = NoKey
    THEN IF r # Unset \/ m # Unset
         THEN [err |-> "ValueError_nodate", logs |-> l, dump |-> FALSE]
         ELSE [err |-> "none", logs |-> l, dump |-> FALSE]
    ELSE IF ~HasKey(l, k)
    THEN [err |-> "KeyError_notfound", logs |-> l, dump |-> FALSE]
    ELSE [err |-> "none",
          logs |-> [i \in 1..Len(l) |->
                     IF l[i].key = k
                     THEN [key |-> k,
                           rating |-> IF r # Unset THEN r ELSE l[i].rating,
                           memory |-> IF m # Unset THEN m ELSE l[i].memory]
                     ELSE l[i]],
          dump |-> TRUE]

\* -------------------------------------------------------------- settings
\* The settings of the "tracker" category that have a range of integers.
TrackerKeys == {"min_time", "min_rating", "max_rating"}
\* SubDictEnum values: a category of the settings file, and NONE_SELECTED,
\* which is never one.
Tracker == "tracker"
NoneSelected == "none_selected"
Cats == {Tracker, NoneSelected}
\* a setting name that no file has
UnknownKey == "bogus"

\* the string "no limit"
NoLimit == Str(2)
\* IterableSettings.load_current_config: the limits of the ranges
MaxHour == 24
MaxRatingLimit == 20
\* Tracker.__init__: the settings before any is changed
DefaultMinTime == 20
DefaultMinRating == 1
DefaultMaxRating == 20

\* IterableSettings.register_range
RegisterRange(min_, max_, step, special_values) ==
    special_values \o
    [i \in 1..(IF max_ < min_ THEN 0 ELSE ((max_ - min_) \div step) + 1) |->
        IntV(min_ + (i - 1) * step)]

\* IterableSettings.load_current_config: the ranges of a config
LoadCurrentConfig(config) ==
    [min_time |-> RegisterRange(1, MaxHour, 1, <<NoLimit>>),
     min_rating |-> RegisterRange(1, config.max_rating.v - 1, 1, <<>>),
     max_rating |-> RegisterRange(config.min_rating.v, MaxRatingLimit, 1, <<>>)]

\* IterableSettings.replace_config_value, on the config in memory
ReplaceConfigValue(config, target_key, new_value) ==
    [config EXCEPT ![target_key] =
        IF target_key = "min_time" /\ new_value = NoLimit THEN IntV(0)
        ELSE new_value]

\* One setting of the settings file: {"value": ..., "ranges": [...]}
Setting(v, r) == [value |-> v, ranges |-> r]
DefaultConfig ==
    [min_time |-> IntV(DefaultMinTime), min_rating |-> IntV(DefaultMinRating),
     max_rating |-> IntV(DefaultMaxRating)]
\* The "tracker" category of a settings file whose values are config and
\* whose ranges are those of the default config.
TrackerSettings(config) ==
    [k \in TrackerKeys |-> Setting(config[k], LoadCurrentConfig(DefaultConfig)[k])]

\* A settings dict: None, {} or {"tracker": {...}}; a settings file:
\* missing or unreadable, {} or {"tracker": {...}}.
NoSettings(kind) == [kind |-> kind, tracker |-> TrackerSettings(DefaultConfig)]
NoneSettings == NoSettings("None")
EmptySettings == NoSettings("empty")
MissingFile == NoSettings("missing")
Dict(t) == [kind |-> "dict", tracker |-> t]

\* The record kept of a call on the settings: the manager, the operation,
\* its arguments, what it returned, and whether it raised.
CfgCall(mgr, op, cat, key, value, ret, ranges, ok, raised) ==
    [mgr |-> mgr, op |-> op, cat |-> cat, key |-> key, value |-> value,
     ret |-> ret, ranges |-> ranges, ok |-> ok, raised |-> raised]
NoCfgCall ==
    CfgCall("none", "none", NoneSelected, UnknownKey, Unset, Unset, <<>>,
            TRUE, "none")

InitConfigIdle ==
    /\ settings_file = MissingFile
    /\ jm = NoneSettings
    /\ sm = EmptySettings
    /\ cfg = NoCfgCall

\* `JsonManager.settings is None` / `not SettingsManager.settings`
NotLoaded(mgr, st) ==
    IF mgr = "JsonManager" THEN st.kind = "None"
    ELSE st.kind \in {"None", "empty"}

\* st[subdict.value][key] raises KeyError
KeyErrorAt(st, cat, key) ==
    \/ st.kind # "dict"
    \/ cat # Tracker
    \/ key \notin DOMAIN st.tracker

\* load_json: the settings after it, and what it returns
LoadJsonSettings(st, f) ==
    IF f.kind = "missing" THEN [settings |-> st, ret |-> FALSE]
    ELSE [settings |-> f, ret |-> TRUE]

\* save_json: the file after it, and what it returns
SaveJsonSettings(mgr, st, f) ==
    IF NotLoaded(mgr, st) THEN [file |-> f, ret |-> FALSE]
    ELSE [file |-> st, ret |-> TRUE]

\* get_range_with_key
GetRangeWithKey(mgr, st, cat, key) ==
    IF NotLoaded(mgr, st) THEN [ret |-> <<>>, raised |-> "none"]
    ELSE IF KeyErrorAt(st, cat, key) THEN [ret |-> <<>>, raised |-> "none"]
    ELSE [ret |-> st.tracker[key].ranges, raised |-> "none"]

\* get_value
GetValue(mgr, st, cat, key) ==
    IF NotLoaded(mgr, st) THEN [ret |-> Null, raised |-> "none"]
    ELSE IF KeyErrorAt(st, cat, key) THEN [ret |-> Null, raised |-> "none"]
    ELSE [ret |-> st.tracker[key].value, raised |-> "none"]

\* A set_value that creates the setting it does not find.
SetValueCreating(mgr, st, cat, key, value) ==
    IF NotLoaded(mgr, st) THEN [settings |-> st, raised |-> "none"]
    ELSE IF st.kind # "dict" \/ cat # Tracker
    THEN [settings |-> st, raised |-> "none"]
    ELSE [settings |->
            Dict([k \in DOMAIN st.tracker \cup {key} |->
                    IF k = key
                    THEN Setting(value,
                                 IF k \in DOMAIN st.tracker
                                 THEN st.tracker[k].ranges ELSE <<>>)
                    ELSE st.tracker[k]]),
          raised |-> "none"]

\* set_value
SetValue(mgr, st, cat, key, value) ==
    IF NotLoaded(mgr, st) THEN [settings |-> st, raised |-> "none"]
    ELSE IF KeyErrorAt(st, cat, key) THEN [settings |-> st, raised |-> "none"]
    ELSE [settings |-> Dict([st.tracker EXCEPT ![key].value = value]),
          raised |-> "none"]

\* True / False as values of a setting
BoolV(b) == [t |-> "bool", v |-> IF b THEN 1 ELSE 0]
\* IterableSettings.register_boolean
RegisterBoolean == <<BoolV(TRUE), BoolV(FALSE)>>
\* The "tracker" category of a settings file that holds autofill_json alone.
AutofillSettings(b) ==
    [k \in {"autofill_json"} |-> Setting(BoolV(b), RegisterBoolean)]

\* Tracker._SETTING_KEYS: the names configure accepts, among those modelled
SettingKeys == TrackerKeys \cup {"autofill_json"}

\* isinstance(value, self._SETTING_KEYS[setting_name]); bool is a subclass
\* of int
IsInstance(v, name) ==
    IF name = "autofill_json" THEN v.t = "bool" ELSE v.t \in {"int", "bool"}

\* isinstance(value, int)
IsInt(v) == v.t = "int"

\* Tracker.configure: the exception it ends with, "none" if it returns
Configure(st) ==
    IF NotLoaded("SettingsManager", st) THEN "none"
    ELSE IF \E name \in DOMAIN st.tracker : name \notin SettingKeys
    THEN "ValueError"
    ELSE IF \E name \in DOMAIN st.tracker :
               ~IsInstance(st.tracker[name].value, name)
    THEN "TypeError"
    ELSE "none"

\* Tracker.configure, setattr(self, 'autofill_json', value): the attribute
\* after configure has run on the settings st of SettingsManager. The other
\* attributes it sets are not part of the model.
ConfiguredAutofill(st, af) ==
    IF ~NotLoaded("SettingsManager", st) /\ Configure(st) = "none"
       /\ "autofill_json" \in DOMAIN st.tracker
    THEN st.tracker["autofill_json"].value = BoolV(TRUE)
    ELSE af

\* JsonManager.get_subdict_ranges: the exception it ends with
GetSubdictRangesRaises(st, cat) ==
    IF st.kind = "None" THEN "none"
    ELSE IF st.kind # "dict" \/ cat # Tracker THEN "KeyError"
    ELSE "none"

\* SettingsMenu.display_option_list, ENTER: the value under the cursor is
\* handed to JsonManager.set_value. A commit is <<key, "first" or "last">>:
\* the cursor starts on the first value and LEFT moves it to the last.
Chosen(st, c) ==
    LET r == st.tracker[c[1]].ranges
    IN IF c[2] = "first" THEN r[1] ELSE r[Len(r)]
RECURSIVE Committed(_, _, _)
Committed(st, cat, commits) ==
    IF commits = <<>> THEN st
    ELSE Committed(SetValue("JsonManager", st, cat, Head(commits)[1],
                            Chosen(st, Head(commits))).settings,
                   cat, Tail(commits))

\* The settings of settings.py before any is replaced.
InitialConfig == DefaultConfig

\* The record kept of a call of no_logs: its argument, the answer to "Load
\* now?", and what it returned.
NoLogsCall(called, check_file, accept, ret) ==
    [called |-> called, check_file |-> check_file, accept |-> accept,
     ret |-> ret]

InitSessionIdle ==
    /\ nolog = NoLogsCall(FALSE, FALSE, FALSE, FALSE)
    /\ configs = InitialConfig

\* A no_logs that reloads the file without asking.
NoLogsResultUnasked(l, f, af, check_file, accept) ==
    LET same(ret) == [ret |-> ret, logs |-> l, file |-> f, err |-> "none",
                      writes |-> 0]
        r == LoadJson(f, af)
    IN IF ~check_file THEN same(l = <<>>)
       ELSE IF l # <<>> THEN same(FALSE)
       ELSE IF LoadRawJson(f) = <<>> THEN same(TRUE)
       ELSE IF r.err # "none"
       THEN [ret |-> FALSE, logs |-> l, file |-> r.file, err |-> r.err,
             writes |-> r.writes]
       ELSE [ret |-> FALSE, logs |-> r.logs, file |-> r.file,
             err |-> "none", writes |-> r.writes]

\* DQTJSON.no_logs: what it returns, the store and the file after it, and
\* the exception of the reload
NoLogsResult(l, f, af, check_file, accept) ==
    LET same(ret) == [ret |-> ret, logs |-> l, file |-> f, err |-> "none",
                      writes |-> 0]
        r == LoadJson(f, af)
    IN IF ~check_file THEN same(l = <<>>)
       ELSE IF l # <<>> THEN same(FALSE)
       ELSE IF LoadRawJson(f) = <<>> THEN same(TRUE)
       ELSE IF ~accept THEN same(TRUE)
       ELSE IF r.err # "none"
       THEN [ret |-> FALSE, logs |-> l, file |-> r.file, err |-> r.err,
             writes |-> r.writes]
       ELSE [ret |-> FALSE, logs |-> r.logs, file |-> r.file,
             err |-> "none", writes |-> r.writes]

\* ---------------------------------------------------------------- backup
\* A file name is a sequence of characters; ".json" stands for those five
\* characters in a row.  ":" is reserved on Windows only, "/" everywhere.
Ext == ".json"
FileChars == {"a", " ", "/", ":"}
NameInputs == SeqsUpTo(FileChars \cup {Ext}, MaxName)

\* str.strip()
RECURSIVE LStrip(_)
LStrip(n) ==
    IF n = <<>> THEN n
    ELSE IF Head(n) = " " THEN LStrip(Tail(n)) ELSE n
RECURSIVE RStrip(_)
RStrip(n) ==
    IF n = <<>> THEN n
    ELSE IF n[Len(n)] = " " THEN RStrip(SubSeq(n, 1, Len(n) - 1)) ELSE n
Strip(n) == RStrip(LStrip(n))

\* str.endswith('.json')
EndsWithExt(n) == n # <<>> /\ n[Len(n)] = Ext

\* DQTJSON._invalid_filename_chars
InvalidFilenameChars(os) == IF os = "nt" THEN {"/", ":"} ELSE {"/"}

\* DQTJSON._prompt_filename, one turn of its loop: whether the input is
\* returned, and the file name made of it
PromptFilenameResult(input, os) ==
    LET stripped == Strip(input)
        name == IF EndsWithExt(stripped) THEN stripped
                ELSE Append(stripped, Ext)
    IN [ok |-> \A i \in 1..Len(name) :
                  name[i] \notin InvalidFilenameChars(os),
        name |-> name]

\* A copy that does not look whether the target exists.
CopyRaisesNever(d, name, exist_ok) == FALSE

\* DQTJSON._create_json_copy: whether it raises FileExistsError
CopyRaises(d, name, exist_ok) == ~exist_ok /\ name \in DOMAIN d

\* shutil.copy2(self.filepath, target_path): the directory afterwards
Copied(d, name, f) == [n \in DOMAIN d \cup {name} |-> IF n = name THEN f ELSE d[n]]

\* DQTJSON._memory_matches_file: dict equality, where 1 == 1.0
MemoryMatchesFile(f, l) ==
    LET raw == LoadRawJson(f)
    IN /\ KeysOf(raw) = KeysOf(l)
       /\ \A k \in KeysOf(l) :
             /\ Float(GetRating(raw, k)) = Float(GetRating(l, k))
             /\ GetMemory(raw, k) = GetMemory(l, k)

\* A file in the backup directory that is not a copy of the log file.
OtherFile == [st |-> "other", members |-> <<>>]
BackupsMade(d) == Cardinality({n \in DOMAIN d : d[n] # OtherFile})
\* dst = None, and nothing reported
NonePath == <<"None">>
NoReport == <<"-">>

\* The backup dialogue: where it stands, the file name typed and the one
\* accepted, whether the copy met an existing file and whether overwriting
\* was confirmed, and what _start_file_backup_process returned and
\* backup_json_file reported.
Dialogue(stage, input, name, exists, overwrite, successful, dst, reported) ==
    [stage |-> stage, input |-> input, name |-> name, exists |-> exists,
     overwrite |-> overwrite, successful |-> successful, dst |-> dst,
     reported |-> reported]
IdleDialogue ==
    Dialogue("idle", <<>>, <<>>, FALSE, FALSE, FALSE, NonePath, NoReport)

InitOthers ==
    /\ os_name = "posix"
    /\ dest = <<>>
    /\ bk = IdleDialogue
    /\ InitConfigIdle
    /\ report = "none"
    /\ InitSessionIdle

\* ------------------------------------------------------------------ Init
InitWith(members) ==
    /\ \/ /\ file \in {BlankFile} \cup
                      {JsonFile(ms) : ms \in SeqsUpTo(members, MaxLen)}
          /\ pre5 = AbsentFile
       \/ /\ file = AbsentFile
          /\ pre5 \in {AbsentFile} \cup
                      {JsonFile(ms) : ms \in SeqsUpTo(LegacyMembers, MaxLen)}
    /\ logs = <<>>
    /\ autofill_json = TRUE
    /\ pc = "start"
    /\ last = Call("none", NoKey, Unset, Unset, "none", 0)

\* The load errors that are a ValueError.
IsValueError(e) ==
    e \in {"ValueError_older", "ValueError_repeated", "ValueError_format"}

\* Tracker.__init__: self.json is bound once DQTJSON(self) has returned.
SelfJsonBound(e) == e = "none"

\* What the program reports when DQTJSON(self) ends with e: the handler of
\* ValueError in Tracker.__init__ builds "Something's wrong with
\* '{self.json.filename}'..." ("remediation"); an exception that leaves
\* Tracker() reaches `except Exception` in main.py, which prints "An
\* unexpected error occurred..." and the traceback ("unexpected").
StartupReport(e) ==
    IF e = "none" THEN "none"
    ELSE IF IsValueError(e) /\ SelfJsonBound(e) THEN "remediation"
    ELSE "unexpected"

\* --------------------------------------------------------------- actions
\* Tracker.__init__ -> DQTJSON.__init__: _touch, then _load_json
Construct ==
    /\ pc = "start"
    /\ LET f == Touched(file, pre5)
           r == LoadJson(f, autofill_json)
       IN /\ file' = r.file
          /\ pre5' = TouchedPre5(file, pre5)
          /\ logs' = r.logs
          /\ pc' = IF r.err = "none" THEN "running" ELSE "failed"
          /\ last' = Call("load", NoKey, Unset, Unset, r.err, r.writes)
          /\ report' = StartupReport(r.err)
    /\ UNCHANGED <<autofill_json, backupVars, configVars, sessionVars>>

\* DQTJSON.add(date, rating, memory)
Add(k, r, m) ==
    /\ pc = "running"
    /\ Len(logs) < MaxLogs \/ HasKey(logs, k)
    /\ LET a == AddResult(logs, k, r, m)
       IN /\ logs' = a.logs
          /\ IF a.err = "none"
             THEN /\ file' = DumpResult(file, a.logs)
                  /\ last' = Call("add", k, r, m, "none",
                                  DumpWrites(file, a.logs))
             ELSE /\ file' = file
                  /\ last' = Call("add", k, Unset, Unset, a.err, 0)
    /\ UNCHANGED <<pre5, autofill_json, pc, others>>

\* DQTJSON.update(date, rating, memory)
Update(k, r, m) ==
    /\ pc = "running"
    /\ LET u == UpdateResult(logs, k, r, m)
       IN /\ logs' = u.logs
          /\ file' = IF u.dump THEN DumpResult(file, u.logs) ELSE file
          /\ last' = Call("update", k, r, m, u.err,
                           IF u.dump THEN DumpWrites(file, u.logs) ELSE 0)
    /\ UNCHANGED <<pre5, autofill_json, pc, others>>

\* DQTJSON._dump(logs): logs is None (dump self.logs) or an empty dict
DumpCall(useSelf) ==
    /\ pc = "running"
    /\ LET l == IF useSelf THEN logs ELSE <<>>
       IN /\ file' = DumpResult(file, l)
          /\ last' = Call(IF useSelf THEN "dump_self" ELSE "dump_empty",
                          NoKey, Unset, Unset, "none", DumpWrites(file, l))
    /\ UNCHANGED <<pre5, logs, autofill_json, pc, others>>

Next ==
    \/ Construct
    \/ \E k \in Keys, r \in Ratings, m \in Memories : Add(k, r, m)
    \/ \E k \in Keys \cup {NoKey}, a \in UpdateArgs : Update(k, a[1], a[2])
    \/ \E b \in BOOLEAN : DumpCall(b)

Init == InitWith(StoreMembers) /\ InitOthers
Spec == Init /\ [][Next]_vars

\* Start-up alone, over every shape of log file.
InitLoad == InitWith(RawMembers) /\ InitOthers
NextLoad == Construct
LoadSpec == InitLoad /\ [][NextLoad]_vars

\* main.py, the KeyboardInterrupt handler around dqt.run(): it calls
\* dqt.json.update() with no argument and exits.  The interrupt is raised
\* while the program waits at a prompt.
Interrupt ==
    /\ pc = "running"
    /\ LET u == UpdateResult(logs, NoKey, Unset, Unset)
       IN /\ logs' = u.logs
          /\ file' = IF u.dump THEN DumpResult(file, u.logs) ELSE file
          /\ last' = Call("interrupt", NoKey, Unset, Unset, u.err,
                          IF u.dump THEN DumpWrites(file, u.logs) ELSE 0)
    /\ pc' = "exited"
    /\ UNCHANGED <<pre5, autofill_json, others>>

\* The same handler when the interrupt is raised inside DQTJSON.add, after
\* the entry is stored in self.logs and before _dump opens the file.
InterruptedAdd(k, r, m) ==
    /\ pc = "running"
    /\ Len(logs) < MaxLogs
    /\ AddResult(logs, k, r, m).err = "none"
    /\ LET l == AddResult(logs, k, r, m).logs
           u == UpdateResult(l, NoKey, Unset, Unset)
       IN /\ logs' = u.logs
          /\ file' = IF u.dump THEN DumpResult(file, u.logs) ELSE file
          /\ last' = Call("interrupt", k, r, m, u.err,
                          IF u.dump THEN DumpWrites(file, u.logs) ELSE 0)
    /\ pc' = "exited"
    /\ UNCHANGED <<pre5, autofill_json, others>>

\* A run of the program: start-up, the store's operations, the interrupt.
NextRun ==
    \/ Next
    \/ Interrupt
    \/ \E k \in Keys, r \in Ratings, m \in Memories : InterruptedAdd(k, r, m)

RunSpec == Init /\ [][NextRun]_vars

\* Tracker.run, choice 6 -> DQTJSON.backup_json_file, up to the first prompt
\* of _start_file_backup_process.  goOn: the answer to "Are you sure you
\* want to continue?", asked when memory and file differ.
BackupBegin(goOn) ==
    /\ pc = "running"
    /\ logs # <<>>
    /\ BackupsMade(dest) < MaxBackups
    /\ IF MemoryMatchesFile(file, logs) \/ goOn
       THEN /\ pc' = "backup"
            /\ bk' = [IdleDialogue EXCEPT !.stage = "filename"]
       ELSE /\ pc' = pc
            /\ bk' = IdleDialogue
    /\ UNCHANGED <<file, pre5, logs, autofill_json, last, os_name, dest,
                   configVars, report, sessionVars>>

\* DQTJSON._prompt_filename: one line typed at the prompt
PromptFilename(input) ==
    /\ pc = "backup"
    /\ bk.stage = "filename"
    /\ LET r == PromptFilenameResult(input, os_name)
       IN bk' = [bk EXCEPT !.input = input,
                           !.name = IF r.ok THEN r.name ELSE <<>>,
                           !.stage = IF r.ok THEN "confirm" ELSE "filename"]
    /\ UNCHANGED <<file, pre5, logs, autofill_json, pc, last, os_name, dest,
                   configVars, report, sessionVars>>

\* DQTJSON._start_file_backup_process from "Confirm?" to the end of that
\* turn of its loop, and backup_json_file's report when the loop is left.
\* create, overwrite: the answers to the two confirmations; io: the copy
\* fails with an error other than FileExistsError.
BackupCopy(create, overwrite, io) ==
    /\ pc = "backup"
    /\ bk.stage = "confirm"
    /\ IF ~create
       THEN /\ bk' = [bk EXCEPT !.stage = "filename", !.exists = FALSE,
                                !.overwrite = FALSE]
            /\ UNCHANGED <<dest, pc>>
       ELSE IF CopyRaises(dest, bk.name, FALSE)
       THEN IF ~overwrite
            THEN /\ bk' = [bk EXCEPT !.stage = "filename", !.exists = TRUE,
                                     !.overwrite = FALSE]
                 /\ UNCHANGED <<dest, pc>>
            ELSE IF io
            THEN /\ bk' = [bk EXCEPT !.stage = "idle", !.exists = TRUE,
                                     !.overwrite = TRUE]
                 /\ pc' = "crashed"
                 /\ UNCHANGED dest
            ELSE /\ dest' = Copied(dest, bk.name, file)
                 /\ bk' = Dialogue("idle", bk.input, bk.name, TRUE, TRUE,
                                   TRUE, NonePath, NonePath)
                 /\ pc' = "running"
       ELSE IF io
       THEN /\ bk' = Dialogue("idle", bk.input, bk.name, FALSE, FALSE,
                              FALSE, NonePath, NoReport)
            /\ pc' = "running"
            /\ UNCHANGED dest
       ELSE /\ dest' = Copied(dest, bk.name, file)
            /\ bk' = Dialogue("idle", bk.input, bk.name, FALSE, FALSE,
                              TRUE, bk.name, bk.name)
            /\ pc' = "running"
    /\ UNCHANGED <<file, pre5, logs, autofill_json, last, os_name,
                   configVars, report, sessionVars>>

\* Files found in the backup directory.
ExistingNames == {<<"a", Ext>>, <<Ext>>}
\* Entries of the log file that is backed up.
BackupMembers ==
    [key : PaddedKeys, shape : {"dict"}, rating : {IntV(1)},
     memory : {Str(1)}]

InitBackup ==
    /\ file \in {JsonFile(<<e>>) : e \in BackupMembers}
    /\ pre5 = AbsentFile
    /\ logs = <<>>
    /\ autofill_json = TRUE
    /\ pc = "start"
    /\ last = Call("none", NoKey, Unset, Unset, "none", 0)
    /\ os_name \in {"posix", "nt"}
    /\ dest \in UNION {[D -> {OtherFile}] : D \in SUBSET ExistingNames}
    /\ bk = IdleDialogue
    /\ InitConfigIdle
    /\ report = "none"
    /\ InitSessionIdle

NextBackup ==
    \/ Construct
    \/ \E goOn \in BOOLEAN : BackupBegin(goOn)
    \/ \E input \in NameInputs : PromptFilename(input)
    \/ \E create \in BOOLEAN, overwrite \in BOOLEAN, io \in BOOLEAN :
          BackupCopy(create, overwrite, io)

BackupSpec == InitBackup /\ [][NextBackup]_vars

\* ------------------------------------------------------ settings actions
Managers == {"JsonManager", "SettingsManager"}
SettingsOf(mgr) == IF mgr = "JsonManager" THEN jm ELSE sm
SetSettings(mgr, st) ==
    /\ jm' = IF mgr = "JsonManager" THEN st ELSE jm
    /\ sm' = IF mgr = "SettingsManager" THEN st ELSE sm
storeVars == <<file, pre5, logs, last, backupVars, sessionVars>>

\* JsonManager.load_json / SettingsManager.load_json
LoadJsonCall(mgr) ==
    /\ pc = "running"
    /\ LET r == LoadJsonSettings(SettingsOf(mgr), settings_file)
       IN /\ SetSettings(mgr, r.settings)
          /\ cfg' = CfgCall(mgr, "load_json", NoneSelected, UnknownKey,
                            Unset, Unset, <<>>, r.ret, "none")
    /\ UNCHANGED <<storeVars, autofill_json, pc, settings_file, report>>

\* get_value(subdict, key)
GetValueCall(mgr, cat, key) ==
    /\ pc = "running"
    /\ LET r == GetValue(mgr, SettingsOf(mgr), cat, key)
       IN /\ cfg' = CfgCall(mgr, "get_value", cat, key, Unset, r.ret, <<>>,
                            TRUE, r.raised)
          /\ pc' = IF r.raised = "none" THEN pc ELSE "crashed"
          /\ report' = IF r.raised = "none" THEN report ELSE "unexpected"
    /\ UNCHANGED <<storeVars, autofill_json, settings_file, jm, sm>>

\* get_range_with_key(subdict, key)
GetRangeCall(mgr, cat, key) ==
    /\ pc = "running"
    /\ LET r == GetRangeWithKey(mgr, SettingsOf(mgr), cat, key)
       IN /\ cfg' = CfgCall(mgr, "get_range_with_key", cat, key, Unset,
                            Unset, r.ret, TRUE, r.raised)
          /\ pc' = IF r.raised = "none" THEN pc ELSE "crashed"
          /\ report' = IF r.raised = "none" THEN report ELSE "unexpected"
    /\ UNCHANGED <<storeVars, autofill_json, settings_file, jm, sm>>

\* set_value(subdict, key, value)
SetValueCall(mgr, cat, key, value) ==
    /\ pc = "running"
    /\ LET r == SetValue(mgr, SettingsOf(mgr), cat, key, value)
       IN /\ SetSettings(mgr, r.settings)
          /\ cfg' = CfgCall(mgr, "set_value", cat, key, value, Unset, <<>>,
                            TRUE, r.raised)
          /\ pc' = IF r.raised = "none" THEN pc ELSE "crashed"
          /\ report' = IF r.raised = "none" THEN report ELSE "unexpected"
    /\ UNCHANGED <<storeVars, autofill_json, settings_file>>

\* Tracker.run, choice 7: SettingsMenu(), in which the user picks a category
\* and commits values with ENTER before leaving with q, then configure() and
\* graph.configure(). An exception that leaves run() reaches `except
\* Exception` in main.py, which prints "An unexpected error occurred..." and
\* exits with status 1. What the menu prints is not modelled.
MenuSettings(cat, commits) ==
    /\ pc = "running"
    /\ LET menuRaised ==
               IF cat = NoneSelected THEN "none"
               ELSE IF jm.kind = "None" THEN "IndexError"
               ELSE GetSubdictRangesRaises(jm, cat)
           entered == cat # NoneSelected /\ menuRaised = "none"
           done == IF entered THEN commits ELSE <<>>
           st == Committed(jm, cat, done)
           raised == IF ~entered THEN menuRaised ELSE Configure(sm)
       IN /\ jm' = st
          /\ settings_file' =
                IF done = <<>> THEN settings_file
                ELSE SaveJsonSettings("JsonManager", st, settings_file).file
          /\ cfg' = CfgCall("JsonManager", "settings_menu", cat,
                            IF done = <<>> THEN UnknownKey
                            ELSE done[Len(done)][1],
                            IF done = <<>> THEN Unset
                            ELSE Chosen(Committed(jm, cat, SubSeq(done, 1,
                                                  Len(done) - 1)),
                                        done[Len(done)]),
                            Unset, <<>>, TRUE, raised)
          /\ autofill_json' = IF entered
                              THEN ConfiguredAutofill(sm, autofill_json)
                              ELSE autofill_json
          /\ pc' = IF raised = "none" THEN pc ELSE "crashed"
          /\ report' = IF raised = "none" THEN report ELSE "unexpected"
    /\ UNCHANGED <<storeVars, sm>>

\* the ENTERs of one visit of the settings menu
Commits == SeqsUpTo(TrackerKeys \X {"first", "last"}, MaxEnter)
\* the values handed to set_value, and the names asked for
SetValues == {IntV(2)}
AskedKeys == {"max_rating", UnknownKey}

\* The settings file is as the program ships it, or is missing, or holds {}.
InitConfig ==
    /\ file = BlankFile
    /\ pre5 = AbsentFile
    /\ logs = <<>>
    /\ autofill_json = TRUE
    /\ pc = "start"
    /\ last = Call("none", NoKey, Unset, Unset, "none", 0)
    /\ os_name = "posix"
    /\ dest = <<>>
    /\ bk = IdleDialogue
    /\ settings_file \in {Dict(TrackerSettings(DefaultConfig)), MissingFile,
                           EmptySettings}
    /\ jm = NoneSettings
    /\ sm = EmptySettings
    /\ cfg = NoCfgCall
    /\ report = "none"
    /\ InitSessionIdle

NextConfig ==
    \/ Construct
    \/ \E mgr \in Managers : LoadJsonCall(mgr)
    \/ \E mgr \in Managers, cat \in Cats, key \in AskedKeys :
          GetValueCall(mgr, cat, key)
    \/ \E mgr \in Managers, cat \in Cats, key \in AskedKeys :
          GetRangeCall(mgr, cat, key)
    \/ \E mgr \in Managers, cat \in Cats, key \in AskedKeys,
          value \in SetValues : SetValueCall(mgr, cat, key, value)
    \/ \E cat \in Cats, commits \in Commits : MenuSettings(cat, commits)

ConfigSpec == InitConfig /\ [][NextConfig]_vars

\* ------------------------------------------------------- session actions
\* __main__, "Loading configurations...": JsonManager.load_json(), then
\* dqt.configure() and dqt.graph.configure(). A ValueError is reported with
\* "Ensure that you have passed valid configuration keys" and ends the
\* program; any other exception reaches `except Exception`.
LoadConfigurations ==
    /\ pc = "running"
    /\ LET r == LoadJsonSettings(jm, settings_file)
           raised == IF ~r.ret THEN "ValueError" ELSE Configure(sm)
       IN /\ jm' = r.settings
          /\ autofill_json' = IF r.ret
                              THEN ConfiguredAutofill(sm, autofill_json)
                              ELSE autofill_json
          /\ cfg' = CfgCall("JsonManager", "load_configurations",
                            NoneSelected, UnknownKey, Unset, Unset, <<>>,
                            r.ret, raised)
          /\ pc' = IF raised = "none" THEN pc
                   ELSE IF raised = "ValueError" THEN "exited" ELSE "crashed"
          /\ report' = IF raised = "none" THEN report
                       ELSE IF raised = "ValueError" THEN "configuration"
                       ELSE "unexpected"
    /\ UNCHANGED <<storeVars, settings_file, sm>>

\* The log file of a first run, which holds no data, is filled in by hand
\* while the program runs with an empty store.
ExternalEdit(files) ==
    /\ pc = "running"
    /\ logs = <<>>
    /\ LoadRawJson(file) = <<>>
    /\ \E f \in files : f # file /\ file' = f
    /\ last' = Call("edit", NoKey, Unset, Unset, "none", 0)
    /\ UNCHANGED <<pre5, logs, autofill_json, pc, others>>

\* DQTJSON.no_logs(check_file), with the answer to "Load now?"
NoLogs(check_file, accept) ==
    /\ pc = "running"
    /\ LET n == NoLogsResult(logs, file, autofill_json, check_file, accept)
       IN /\ logs' = n.logs
          /\ file' = n.file
          /\ last' = Call("no_logs", NoKey, Unset, Unset, n.err, n.writes)
          /\ nolog' = NoLogsCall(TRUE, check_file, accept, n.ret)
          /\ pc' = IF n.err = "none" THEN pc ELSE "crashed"
          /\ report' = IF n.err = "none" THEN report ELSE "unexpected"
    /\ UNCHANGED <<pre5, autofill_json, backupVars, configVars, configs>>

\* Tracker.run: `if not self.json.today_rated(): input_todays_log()`, which
\* ends with self.json.add(today, rating, memory)
Today == [day |-> MaxDay, pad |-> TRUE]
InputTodaysLog(r, m) ==
    /\ ~HasKey(logs, Today)
    /\ Add(Today, r, m)

\* members of a log file edited by hand
EditMembers ==
    {m \in [key : {k \in PaddedKeys : k.day \in EditDays}, shape : {"dict"},
            rating : {Absent, IntV(1)}, memory : {Absent, Str(1)}] :
        m.rating # Absent \/ m.memory # Absent}
EditFiles == {JsonFile(ms) : ms \in SeqsUpTo(EditMembers, MaxEdit)}

\* The log file found at start-up: none on a first run, or one entry.
StartFiles == {AbsentFile} \cup {JsonFile(<<m>>) : m \in EditMembers}

\* Before Tracker(): the log file, and a settings file that holds
\* autofill_json.
InitSession ==
    /\ file \in StartFiles
    /\ pre5 = AbsentFile
    /\ logs = <<>>
    /\ autofill_json = TRUE
    /\ pc = "start"
    /\ last = Call("none", NoKey, Unset, Unset, "none", 0)
    /\ os_name = "posix"
    /\ dest = <<>>
    /\ bk = IdleDialogue
    /\ settings_file \in {Dict(AutofillSettings(b)) : b \in BOOLEAN}
    /\ jm = NoneSettings
    /\ sm = EmptySettings
    /\ cfg = NoCfgCall
    /\ report = "none"
    /\ InitSessionIdle

NextSession ==
    \/ Construct
    \/ LoadJsonCall("SettingsManager")
    \/ LoadConfigurations
    \/ ExternalEdit(EditFiles)
    \/ \E c \in BOOLEAN, a \in BOOLEAN : NoLogs(c, a)
    \/ \E r \in Ratings, m \in Memories : InputTodaysLog(r, m)

SessionSpec == InitSession /\ [][NextSession]_vars

\* The reload alone, over every shape of hand-edited file.
ReloadMembers ==
    [key : {k \in Keys : k.day \in EditDays}, shape : {"dict"},
     rating : {Absent, IntV(1)}, memory : {Absent, Str(1)}]
    \cup [key : {k \in Keys : k.day \in EditDays}, shape : {"num"},
          rating : {IntV(1)}, memory : {Absent}]
ReloadFiles == {JsonFile(ms) : ms \in SeqsUpTo(ReloadMembers, MaxLen)}

NextReload ==
    \/ Construct
    \/ LoadJsonCall("SettingsManager")
    \/ LoadConfigurations
    \/ ExternalEdit(ReloadFiles)
    \/ \E a \in BOOLEAN : NoLogs(TRUE, a)

ReloadSpec == InitSession /\ [][NextReload]_vars

\* ------------------------------------------------------- settings engine
\* SettingsMenu, ENTER: the value at the cursor, taken from the range that
\* IterableSettings holds for the setting, goes to replace_config_value,
\* which ends with load_current_config. i is the position of the cursor.
ReplaceConfigValueCall(target_key, i) ==
    /\ pc = "running"
    /\ i \in 1..Len(LoadCurrentConfig(configs)[target_key])
    /\ configs' = ReplaceConfigValue(configs, target_key,
                                     LoadCurrentConfig(configs)[target_key][i])
    /\ UNCHANGED <<file, pre5, logs, autofill_json, pc, last, backupVars,
                   configVars, report, nolog>>

\* the positions a cursor can have in the longest range
Cursors == 1..(MaxHour + 1)

NextRange ==
    \/ Construct
    \/ \E target_key \in TrackerKeys, i \in Cursors :
          ReplaceConfigValueCall(target_key, i)

\* A first run with the settings as shipped.
InitRange ==
    /\ InitSession
    /\ file = AbsentFile
    /\ settings_file = Dict(AutofillSettings(TRUE))

RangeSpec == InitRange /\ [][NextRange]_vars

\* ---------------------------------------------------------------- claims
IsDatedCall(c, op) == c.op = op /\ c.key # NoKey
OtherEntriesKept(l1, l2, k) ==
    /\ KeyOrder(l2) = KeyOrder(l1)
    /\ \A i \in 1..Len(l1) : l1[i].key # k => l2[i] = l1[i]

\* C1: add(date, ...) with a date that is already a key fails with the
\* duplicate-key error and changes neither the store nor the log file.
C1_AddExistingFails ==
    [][(IsDatedCall(last', "add") /\ HasKey(logs, last'.key))
          => (/\ last'.err = "KeyError_exists"
              /\ logs' = logs
              /\ file' = file)]_vars

C1_Witness ==
    /\ last.op = "add"
    /\ last.err = "KeyError_exists"
    /\ HasKey(logs, last.key)
    /\ Len(logs) = MaxLogs

\* C2: update(date, ...) with a date that is not a key fails with the
\* key-not-found error, creates no entry, and leaves store and file as they
\* were.
C2_UpdateAbsentFails ==
    [][(IsDatedCall(last', "update") /\ ~HasKey(logs, last'.key))
          => (/\ last'.err = "KeyError_notfound"
              /\ ~HasKey(logs', last'.key)
              /\ logs' = logs
              /\ file' = file)]_vars

C2_Witness ==
    /\ last.op = "update"
    /\ last.err = "KeyError_notfound"
    /\ ~HasKey(logs, last.key)
    /\ logs # <<>>

\* C3: update(date, rating=X) on a present date sets that entry's rating to
\* X and keeps its memory, every other entry and the key order;
\* update(date, memory=Y) likewise keeps the rating and the other entries.
C3_UpdateChangesOneField ==
    [][(IsDatedCall(last', "update") /\ HasKey(logs, last'.key))
          => (/\ last'.err = "none"
              /\ OtherEntriesKept(logs, logs', last'.key)
              /\ GetRating(logs', last'.key) =
                    IF last'.rating # Unset THEN last'.rating
                    ELSE GetRating(logs, last'.key)
              /\ GetMemory(logs', last'.key) =
                    IF last'.memory # Unset THEN last'.memory
                    ELSE GetMemory(logs, last'.key))]_vars

C3_Witness ==
    /\ IsDatedCall(last, "update")
    /\ last.err = "none"
    /\ last.rating = Null
    /\ last.memory = Unset
    /\ Len(logs) = 2
    /\ GetMemory(logs, last.key) = Str(1)

\* C4: after add(d, r, m) succeeds for a date d that was not present,
\* get_rating(d) is r and get_memory(d) is m, and every entry that was
\* present still returns its rating and memory.
C4_AddThenGet ==
    [][(IsDatedCall(last', "add") /\ ~HasKey(logs, last'.key))
          => (/\ last'.err = "none"
              /\ GetRating(logs', last'.key) = last'.rating
              /\ GetMemory(logs', last'.key) = last'.memory
              /\ \A k \in KeysOf(logs) :
                    /\ HasKey(logs', k)
                    /\ GetRating(logs', k) = GetRating(logs, k)
                    /\ GetMemory(logs', k) = GetMemory(logs, k))]_vars

C4_Witness ==
    /\ last.op = "add"
    /\ last.err = "none"
    /\ Len(logs) = 2
    /\ GetRating(logs, last.key) = Flt(1)
    /\ GetMemory(logs, last.key) = Str(1)

\* C5: _dump of an empty mapping while the file holds a non-empty mapping
\* leaves the file as it is; _dump of a non-empty mapping replaces the whole
\* file, which then holds exactly that mapping.
DumpedMapping(c, l) == IF c.op = "dump_self" THEN l ELSE <<>>
C5_DumpGuard ==
    [][(last'.op \in {"dump_self", "dump_empty"})
          => LET l == DumpedMapping(last', logs)
             IN /\ (l = <<>> /\ LoadRawJson(file) # <<>>) => file' = file
                /\ l # <<>> => /\ file'.st = "json"
                               /\ file'.members = JsonDump(l)
                               /\ LoadRawJson(file') = JsonDump(l)]_vars

C5_Witness ==
    /\ last.op = "dump_empty"
    /\ last.writes = 0
    /\ LoadRawJson(file) # <<>>
    /\ logs # <<>>

\* C6: right after a successful add or update of a date, the mapping in the
\* log file is the in-memory mapping: same dates, same order, same rating
\* and memory for each date.
C6_MutationPersisted ==
    ((IsDatedCall(last, "add") \/ IsDatedCall(last, "update"))
        /\ last.err = "none")
    => /\ LoadRawJson(file) = JsonDump(logs)
       /\ file.members = JsonDump(logs)
       /\ last.writes = 1

C6_Witness ==
    /\ IsDatedCall(last, "update")
    /\ last.err = "none"
    /\ last.memory = Str(1)
    /\ Len(logs) = 2
    /\ file.members = JsonDump(logs)

StrictlyIncreasing(l) ==
    \A i \in 2..Len(l) : Strptime(l[i].key) > Strptime(l[i - 1].key)

\* C7: in every state reached from a successful load by add and update
\* calls, the keys of the store in insertion order are strictly increasing
\* calendar dates, so the file the store wrote loads again without an
\* ordering or duplicate error.
C7_KeysStayOrdered ==
    pc = "running"
    => /\ StrictlyIncreasing(logs)
       /\ (last.op \in {"add", "update"} /\ last.writes = 1)
             => LoadJson(file, autofill_json).err = "none"

\* A member the walk accepts on its own: an object, with the fields the
\* autofill policy requires.
WellFormed(e, af) ==
    /\ e.shape = "dict"
    /\ af \/ (e.rating # Absent /\ e.memory # Absent)

\* Member i is the first defect of the file text ms, and it is a date that
\* does not come after the date of the member stored just before it.
OrderDefectAt(ms, i, af) ==
    /\ Strptime(ms[i].key) <= Strptime(ms[i - 1].key)
    /\ \A j \in 1..(i - 1) : WellFormed(ms[j], af)
    /\ \A j \in 2..(i - 1) : Strptime(ms[j].key) > Strptime(ms[j - 1].key)

\* C8: loading a file in which an entry's date is earlier than the date of
\* the entry stored just before it fails with the ordering error, and one
\* in which it equals that date fails with the duplicate error; no store is
\* produced, nothing is silently reordered or dropped.
C8_BadOrderFailsLoad ==
    [][pc = "start"
          => LET ms == Touched(file, pre5).members
             IN \A i \in 2..Len(ms) :
                   OrderDefectAt(ms, i, autofill_json)
                   => /\ pc' = "failed"
                      /\ logs' = <<>>
                      /\ file' = Touched(file, pre5)
                      /\ last'.err =
                            IF Strptime(ms[i].key) < Strptime(ms[i - 1].key)
                            THEN "ValueError_older"
                            ELSE "ValueError_repeated"]_vars

\* A file whose every entry maps a date to a bare number, in date order.
IsLegacyFile(ms) ==
    /\ ms # <<>>
    /\ \A i \in 1..Len(ms) : ms[i].shape = "num"
    /\ StrictlyIncreasing(ms)

\* C9: loading a legacy file, whose entries map a date to a bare number n,
\* yields for each date the entry {rating: float(n), memory: ""}, and the
\* load rewrites the file exactly once, in canonical form.
C9_LegacyUpgraded ==
    [][(pc = "start" /\ IsLegacyFile(Touched(file, pre5).members))
          => LET ms == Touched(file, pre5).members
             IN /\ pc' = "running"
                /\ logs' = [i \in 1..Len(ms) |->
                              [key |-> ms[i].key,
                               rating |-> Float(ms[i].rating),
                               memory |-> EmptyStr]]
                /\ last'.writes = 1
                /\ file' = JsonFile(JsonDump(logs'))]_vars

\* C10: for every file that loads, persisting the loaded mapping and loading
\* again yields the mapping of the first load, and the second load performs
\* no corrective rewrite.
C10_NormalizationIdempotent ==
    (pc = "running" /\ last.op = "load")
    => LET f2 == DumpResult(file, logs)
           r2 == LoadJson(f2, autofill_json)
       IN /\ r2.err = "none"
          /\ r2.logs = logs
          /\ r2.writes = 0
          /\ r2.file = f2

C10_Witness ==
    /\ pc = "running"
    /\ last.op = "load"
    /\ last.writes = 0
    /\ Len(logs) = 2
    /\ file.members # JsonDump(logs)
    /\ DumpResult(file, logs) # file

NoFields(c) == c.op = "update" /\ c.rating = Unset /\ c.memory = Unset

\* C11 (as stated): update with neither rating nor memory supplied leaves
\* the mapping as it was, and when the date is unset as well the call fails
\* with the missing-argument error.
C11_NoFieldsUpdate ==
    [][NoFields(last')
          => (/\ logs' = logs
              /\ last'.key = NoKey => last'.err = "ValueError_nodate")]_vars

\* C11 (amended): update with neither rating nor memory supplied leaves the
\* mapping as it was, and with the date unset as well it returns without an
\* error; an update without a date fails with the missing-argument error
\* exactly when a rating or a memory is supplied, the mapping unchanged.
C11_NoFieldsUpdateAmended ==
    [][last'.op = "update"
          => (/\ NoFields(last') => logs' = logs
              /\ last'.key = NoKey
                    => (/\ logs' = logs
                        /\ last'.err = IF NoFields(last') THEN "none"
                                       ELSE "ValueError_nodate"))]_vars

C11_Witness ==
    /\ NoFields(last)
    /\ last.key = NoKey
    /\ last.err = "none"
    /\ last.writes = 0
    /\ logs # <<>>

\* C12: when the run is interrupted by the user, the program writes the
\* current in-memory mapping to the log file once before it exits, so that
\* the file then holds that mapping.
C12_InterruptPersists ==
    (pc = "exited" /\ last.op = "interrupt" /\ logs # <<>>)
    => /\ last.writes = 1
       /\ LoadJson(file, autofill_json).err = "none"
       /\ LoadJson(file, autofill_json).logs = logs

\* C13: a file that exists in the backup directory changes only in a copy
\* whose overwrite was confirmed, and then it becomes the log file; when the
\* copy meets an existing file and overwriting is not confirmed, the
\* directory stays as it was and the dialogue asks for a name again.
C13_OverwriteOnlyConfirmed ==
    [][/\ \A n \in DOMAIN dest :
             /\ n \in DOMAIN dest'
             /\ dest'[n] # dest[n]
                   => (/\ bk.stage = "confirm"
                       /\ bk.name = n
                       /\ bk'.exists
                       /\ bk'.overwrite)
       /\ (bk.stage = "confirm" /\ bk'.exists /\ ~bk'.overwrite)
             => (dest' = dest /\ bk'.stage = "filename" /\ ~bk'.successful)
       /\ (bk.stage = "confirm" /\ bk'.exists /\ bk'.overwrite
              /\ bk'.successful)
             => (/\ dest'[bk.name] = file
                 /\ \A n \in DOMAIN dest : n # bk.name => dest'[n] = dest[n]
                 /\ DOMAIN dest' = DOMAIN dest)]_vars

C13_Witness ==
    /\ bk.stage = "idle"
    /\ bk.exists
    /\ bk.overwrite
    /\ bk.successful
    /\ dest[bk.name] = file
    /\ \E n \in DOMAIN dest : dest[n] = OtherFile

\* C14: every successful backup returns and reports the path of the file
\* it created or overwrote, and that file is a copy of the log file.
C14_BackupReturnsPath ==
    (bk.stage = "idle" /\ bk.successful)
    => /\ bk.dst = bk.name
       /\ bk.reported = bk.name
       /\ bk.name \in DOMAIN dest
       /\ dest[bk.name] = file

\* C15: a file name the prompt accepts comes from an input that is not
\* empty and not only white space; it is that input, stripped, with the
\* extension appended when missing; it ends with the extension and holds no
\* character reserved on the host.
C15_FilenameValidated ==
    bk.stage = "confirm"
    => /\ Strip(bk.input) # <<>>
       /\ bk.name \in {Strip(bk.input), Append(Strip(bk.input), Ext)}
       /\ EndsWithExt(bk.name)
       /\ \A i \in 1..Len(bk.name) :
             bk.name[i] \notin InvalidFilenameChars(os_name)

\* ------------------------------------------------------- claims: settings
\* the (category, name) pair is a setting of st
HasSetting(st, cat, key) ==
    st.kind = "dict" /\ cat = Tracker /\ key \in DOMAIN st.tracker
\* the last call stored the integer cfg.value under name key: a set_value, or
\* an ENTER of the settings menu
HasSetTo(key) ==
    /\ cfg.op \in {"set_value", "settings_menu"}
    /\ cfg.cat = Tracker
    /\ cfg.key = key
    /\ IsInt(cfg.value)
    /\ GetValue(cfg.mgr, SettingsOf(cfg.mgr), Tracker, key).ret = cfg.value
RangesNow(key) ==
    GetRangeWithKey(cfg.mgr, SettingsOf(cfg.mgr), Tracker, key).ret

\* C16: once max_rating has been set to M, the ranges fetched for min_rating
\* are exactly 1..M-1, and once min_rating has been set to m, the ranges
\* fetched for max_rating are exactly m..20, with no reload in between.
C16_RangesFollowValues ==
    /\ HasSetTo("max_rating")
        => RangesNow("min_rating") = RegisterRange(1, cfg.value.v - 1, 1, <<>>)
    /\ HasSetTo("min_rating")
        => RangesNow("max_rating")
             = RegisterRange(cfg.value.v, MaxRatingLimit, 1, <<>>)

\* C17: when the settings menu commits the value "no limit" of min_time, the
\* value stored for min_time is 0 and never the string, and the range of
\* min_time still offers "no limit".
C17_SentinelStoredAsZero ==
    (cfg.op = "settings_menu" /\ cfg.key = "min_time" /\ cfg.value = NoLimit)
    => /\ GetValue("JsonManager", jm, Tracker, "min_time").ret = IntV(0)
       /\ \E i \in 1..Len(jm.tracker["min_time"].ranges) :
             jm.tracker["min_time"].ranges[i] = NoLimit

\* C18: get_value, set_value and get_range_with_key called with a (category,
\* name) pair that is not a setting never raise: they return None, store
\* nothing and return the empty list, and the settings are as before.
C18_UnknownPairHarmless ==
    [][(/\ cfg'.op \in {"get_value", "set_value", "get_range_with_key"}
        /\ ~HasSetting(SettingsOf(cfg'.mgr), cfg'.cat, cfg'.key))
       => (/\ cfg'.raised = "none"
           /\ pc' = pc
           /\ cfg'.op = "get_value" => cfg'.ret = Null
           /\ cfg'.op = "get_range_with_key" => cfg'.ranges = <<>>
           /\ jm' = jm
           /\ sm' = sm
           /\ settings_file' = settings_file)]_vars

\* set_value was called on loaded settings with a name they do not have
C18_Witness ==
    /\ cfg.op = "set_value"
    /\ cfg.cat = Tracker
    /\ cfg.key = UnknownKey
    /\ SettingsOf(cfg.mgr).kind = "dict"
    /\ cfg.raised = "none"

C20_StructuralErrorReported ==
    (pc = "failed" /\ IsValueError(last.err))
    => (report = "remediation" /\ logs = <<>>)

\* A step of no_logs that reloads the log file into the empty store, and a
\* mapping that passes the checks of order and shape.
Reloads ==
    /\ last'.op = "no_logs"
    /\ nolog'.check_file
    /\ nolog'.accept
    /\ logs = <<>>
    /\ LoadRawJson(file) # <<>>
WellOrdered(c) ==
    \A i \in 1..Len(c) :
        /\ c[i].shape = "dict"
        /\ i > 1 => Strptime(c[i].key) > Strptime(c[i - 1].key)
MissingRating(c) == \E i \in 1..Len(c) : c[i].rating = Absent
MissingMemory(c) == \E i \in 1..Len(c) : c[i].memory = Absent
MissingFieldErrors == {"KeyError_rating", "KeyError_memory"}
RatingsFilled(c, l) ==
    /\ Len(l) = Len(c)
    /\ \A i \in 1..Len(c) : c[i].rating = Absent => l[i].rating = Null
MemoriesFilled(c, l) ==
    /\ Len(l) = Len(c)
    /\ \A i \in 1..Len(c) : c[i].memory = Absent => l[i].memory = EmptyStr

\* C21 as stated: in an entry of object shape a missing rating becomes null
\* when autofill is on and is a missing-field error when it is off, whereas a
\* missing memory is filled with "" and marks the store dirty under either
\* value of the policy.
C21_MemoryFilledEitherWay ==
    [][(Reloads /\ WellOrdered(LoadRawJson(file)))
       => LET c == LoadRawJson(file)
          IN /\ (MissingRating(c) /\ autofill_json)
                  => (last'.err = "none" /\ RatingsFilled(c, logs'))
             /\ (MissingRating(c) /\ ~autofill_json)
                  => (last'.err \in MissingFieldErrors /\ logs' = logs)
             /\ (MissingMemory(c) /\ (autofill_json \/ ~MissingRating(c)))
                  => (/\ last'.err = "none"
                      /\ MemoriesFilled(c, logs')
                      /\ last'.writes = 1)]_vars

\* C21: in an entry of object shape a missing rating becomes null when
\* autofill is on and is a missing-field error when it is off; a missing
\* memory is filled with "" and marks the store dirty when autofill is on,
\* and is a missing-field error when it is off.
C21_MissingFieldsFollowPolicy ==
    [][(Reloads /\ WellOrdered(LoadRawJson(file)))
       => LET c == LoadRawJson(file)
          IN /\ (MissingRating(c) /\ autofill_json)
                  => (last'.err = "none" /\ RatingsFilled(c, logs'))
             /\ (MissingMemory(c) /\ autofill_json)
                  => (/\ last'.err = "none"
                      /\ MemoriesFilled(c, logs')
                      /\ last'.writes = 1)
             /\ ((MissingRating(c) \/ MissingMemory(c)) /\ ~autofill_json)
                  => (last'.err \in MissingFieldErrors /\ logs' = logs)]_vars

\* a reload with autofill off has met an entry without memory
C21_Witness ==
    /\ last.op = "no_logs"
    /\ last.err = "KeyError_memory"
    /\ ~autofill_json
    /\ MissingMemory(LoadRawJson(file))
    /\ ~MissingRating(LoadRawJson(file))

\* The mapping a start-up load reads, and a record of it that the load had
\* to upgrade or fill.
StartupContents == LoadRawJson(Touched(file, pre5))
NeedsRepair(c) ==
    \E i \in 1..Len(c) :
        c[i].shape # "dict" \/ c[i].rating = Absent \/ c[i].memory = Absent

\* C22: a load writes the log file exactly once, and writes the whole
\* normalized mapping, if and only if it upgraded a record or filled a field;
\* a load of a file that is already canonical writes nothing.
C22_RewriteIffRepaired ==
    [][last'.op = "load"
       => LET repaired == last'.err = "none" /\ NeedsRepair(StartupContents)
          IN /\ repaired => (/\ last'.writes = 1
                             /\ file' = JsonFile(JsonDump(logs')))
             /\ ~repaired => (/\ last'.writes = 0
                              /\ file' = Touched(file, pre5))]_vars

\* a start-up load has filled a field of a file of two entries and has
\* written both entries back
C22_Witness ==
    /\ last.op = "load"
    /\ last.err = "none"
    /\ last.writes = 1
    /\ Len(logs) = 2
    /\ file = JsonFile(JsonDump(logs))

\* C23: a load that fails, whether on the order of the dates, on a repeated
\* date, on the shape of an entry or on a missing field, leaves the log file
\* as it was before the load, and writes nothing, even when it had filled
\* fields of earlier entries.
C23_FailedLoadWritesNothing ==
    [][/\ (last'.op = "load" /\ last'.err # "none")
          => (file' = Touched(file, pre5) /\ last'.writes = 0)
       /\ (Reloads /\ last'.err # "none")
          => (file' = file /\ last'.writes = 0)]_vars

\* a reload with autofill on has filled the first entry of the file and has
\* then failed on the second
C23_Witness ==
    /\ last.op = "no_logs"
    /\ last.err \in {"ValueError_older", "ValueError_repeated",
                     "ValueError_format"}
    /\ autofill_json
    /\ LoadRawJson(file)[1].shape = "dict"
    /\ LoadRawJson(file)[1].memory = Absent

\* C24: after a load that succeeds every entry of the store has a rating
\* that is a float or null and a memory that is a string, possibly empty and
\* never null, whatever the file held in the memory slot.
C24_EntriesWellTyped ==
    (last.op = "load" /\ last.err = "none")
    => \A i \in 1..Len(logs) :
          /\ logs[i].rating = Null \/ logs[i].rating.t = "float"
          /\ logs[i].memory.t = "str"

\* C25: no_logs(check_file = true) returns true exactly when the store is
\* empty and the file is empty or the reload was declined; it repopulates the
\* store only when the file holds data, the store is empty and the reload was
\* accepted, and then it returns false; in every other case, check_file =
\* false included, the store and the file are as before.
C25_NoLogsReconciles ==
    [][last'.op = "no_logs"
       => LET fileEmpty == LoadRawJson(file) = <<>>
              reload == /\ nolog'.check_file
                        /\ logs = <<>>
                        /\ ~fileEmpty
                        /\ nolog'.accept
          IN /\ (nolog'.check_file /\ last'.err = "none")
                  => (nolog'.ret <=> (logs = <<>> /\ (fileEmpty \/ ~nolog'.accept)))
             /\ logs' # logs => reload
             /\ (reload /\ last'.err = "none")
                  => (/\ KeyOrder(logs') = KeyOrder(LoadRawJson(file))
                      /\ ~nolog'.ret)
             /\ ~reload => (logs' = logs /\ file' = file)]_vars

\* a reload was accepted and has repopulated the store
C25_Witness ==
    /\ last.op = "no_logs"
    /\ last.err = "none"
    /\ nolog.check_file
    /\ nolog.accept
    /\ ~nolog.ret
    /\ last.writes = 1
    /\ logs # <<>>

\* C26: no add and no update removes from the log file the entry of a date
\* that was in the file before the call; in particular, when the store is
\* empty and the file holds data that was not reloaded, adding today's entry
\* does not drop the entries of the file.
C26_DiskEntriesKept ==
    [][last'.op \in {"add", "update"}
       => KeysOf(LoadRawJson(file)) \subseteq KeysOf(LoadRawJson(file'))]_vars

\* C27: after any sequence of commits, each of a value taken from the
\* current range of the setting it changes, min_rating < max_rating.
C27_MinBelowMax == configs.min_rating.v < configs.max_rating.v

\* C28: after any such sequence of commits every range the engine returns is
\* non-empty, so that the cursor of the settings menu, moved modulo the length
\* of the range, always points at a value.
C28_RangesNonEmpty ==
    \A k \in TrackerKeys : LoadCurrentConfig(configs)[k] # <<>>

\* The value of autofill_json in the settings file.
ConfiguredOff ==
    /\ settings_file.kind = "dict"
    /\ settings_file.tracker["autofill_json"].value = BoolV(FALSE)

\* C29: after the settings file has been loaded at start-up, configure has
\* made the tracker's attribute equal to the stored value of the setting of
\* the same name.
C29_AttributesFollowSettings ==
    (cfg.op = "load_configurations" /\ cfg.ok /\ cfg.raised = "none")
    => (autofill_json <=> jm.tracker["autofill_json"].value = BoolV(TRUE))

\* C30: the start-up load applies the autofill_json of the settings: when it
\* is configured off, a log file with an entry that lacks its rating or its
\* memory fails to load and nothing is filled.
C30_StartupLoadFollowsSetting ==
    [][(/\ pc = "start"
        /\ last'.op = "load"
        /\ ConfiguredOff
        /\ WellOrdered(StartupContents)
        /\ NeedsRepair(StartupContents))
       => (last'.err \in MissingFieldErrors /\ file' = file)]_vars

====
